---- MODULE Spec2Model ----
(***************************************************************************)
(* A model of the reactive runtime of lesson-2-todo-app: KWM_Observable,   *)
(* KWM_Computed, KWM_Component and KWM_Bindings.                           *)
(*                                                                         *)
(* Every operation of the code is synchronous and runs to completion, so   *)
(* one action of the model is one outermost call (set, subscribe, bind,    *)
(* render, an input event) together with every listener it invokes,        *)
(* depth-first, exactly as Set.prototype.forEach delivers them.            *)
(***************************************************************************)
EXTENDS Integers, Sequences, FiniteSets, TLC

VARIABLES
    value,        \* value[o]     : KWM_Observable._value of observable o
    subs,         \* subs[o]      : the entries of the Set that o is, in insertion order
    valueFn,      \* valueFn[o]   : the derivation of a KWM_Computed, <<>> for a plain observable,
                  \*                NoObservable when the field holds a value that is no
                  \*                KWM_Observable (value[o] is that value)
    fields,       \* fields[name] : the observable that field `name` of the component (or of
                  \*                the calling code) holds
    template,     \* the markup the component's template() returns
    templateCache,\* KWM_Component._templateCache
    nodes,        \* every node innerHTML has created so far; nodes[n].attached: still in the tree
    mounted,      \* KWM_Component._mounted
    bindings,     \* KWM_Component._bindings is set (the engine exists)
    subscriptions,\* KWM_Bindings.subscriptions: the retained unsubscribe closures, a Set
    binds,        \* how many bind passes were made
    made,         \* how many listener closures the engine has created; numbers them
    createdIn,    \* createdIn.obs[o], createdIn.fn[k]: the bind pass that created observable o
                  \* and closure k (0: created by a constructor)
    lifecycle,    \* lifecycle.connected: the component is in the UI tree;
                  \* lifecycle.onFirstRender: how often onFirstRender() was called;
                  \* lifecycle.engines: how many KWM_Bindings the component has constructed
    last          \* the outermost call made by the last step: its arguments, whether a set
                  \* found the value different (changed), whether it directly follows a
                  \* notifying set of the same observable (chained), the listener calls it
                  \* made in order (trace), the steps of the renders it made in order
                  \* (steps) and what it threw

vars == <<value, subs, valueFn, fields, template, templateCache, nodes, mounted, bindings,
          subscriptions, binds, made, createdIn, lifecycle, last>>

-----------------------------------------------------------------------------
(* Bounds of the model *)

MaxVal == 1      \* plain values an observable is set to: 0..MaxVal, and NaN
NumFns == 2      \* passive listener functions of the calling code
MaxBinds == 3    \* bind passes (render or bind) of one run
MaxDeps == 3     \* elements of the list registerRenderDependencies is called with

-----------------------------------------------------------------------------
(* JavaScript values *)

\* NaN is the one value that is not === itself.
NaN == -1

\* undefined
Undefined == -2

\* the empty string
EmptyString == -3

Values == (0..MaxVal) \cup {NaN}

\* !value is false: 0 (and false), NaN, '' and undefined are the falsy values
Truthy(v) == v \notin {0, NaN, Undefined, EmptyString}

\* newValue !== this._value
StrictNotEqualAlways(x, y) == TRUE
StrictNotEqual(x, y) == x # y \/ x = NaN \/ y = NaN

\* the + of the derivation first.value + last.value
Plus(x, y) == IF x \in {NaN, Undefined} \/ y \in {NaN, Undefined} THEN NaN ELSE x + y

-----------------------------------------------------------------------------
(* Listener functions.  A listener is a function object; the Set compares  *)
(* function objects by reference, which the record's fields stand for.     *)

NoFn == [kind |-> "none", id |-> 0, obs |-> 0, elem |-> 0, attr |-> ""]

\* an entry of a Set's [[SetData]] that was deleted (the ECMAScript `empty`)
Empty == [kind |-> "empty", id |-> 0, obs |-> 0, elem |-> 0, attr |-> ""]

\* a listener of the calling code that only observes the value it is given
LogFn(k) == [kind |-> "log", id |-> k, obs |-> 0, elem |-> 0, attr |-> ""]

\* a listener of the calling code that calls its own unsubscribe closure on o
SelfUnsubFn(o) == [kind |-> "selfUnsub", id |-> 0, obs |-> o, elem |-> 0, attr |-> ""]

\* a listener of the calling code that sets o to v: () => o.set(v)
SetterFn(o, v) == [kind |-> "setter", id |-> v, obs |-> o, elem |-> 0, attr |-> ""]

\* the listenerFn a KWM_Computed c subscribes to its dependencies
ComputedListenerFn(c) == [kind |-> "computed", id |-> 0, obs |-> c, elem |-> 0, attr |-> ""]

-----------------------------------------------------------------------------
(* The Set a KWM_Observable extends *)

RECURSIVE Live(_)
\* the entries that are not deleted, in insertion order
Live(s) ==
    IF s = <<>> THEN <<>>
    ELSE IF Head(s) = Empty THEN Live(Tail(s)) ELSE <<Head(s)>> \o Live(Tail(s))

Has(s, fn) == \E i \in 1..Len(s) : s[i] = fn

\* Set.prototype.add: appends unless the value is already an entry
SetAddDuplicating(s, fn) == Append(s, fn)
SetAdd(s, fn) == IF Has(s, fn) THEN s ELSE Append(s, fn)

\* Set.prototype.delete: the entry becomes empty, the entries after it keep their places
SetDeleteSplicing(s, fn) == SelectSeq(s, LAMBDA e : e # fn)
SetDelete(s, fn) == [i \in 1..Len(s) |-> IF s[i] = fn THEN Empty ELSE s[i]]

-----------------------------------------------------------------------------
(* Expressions.  The text of an expression is kept as its sequence of      *)
(* lexemes (identifiers, literals and punctuation characters).             *)

\* the value of field f of the object the expression is evaluated against
FieldValue(w, f) == IF f \in DOMAIN w.fields THEN w.value[w.fields[f]] ELSE Undefined

\* an array; ref tells apart two array objects that follow one another as the
\* value of one Observable
Array(ref, items) == [ref |-> ref, items |-> items]

\* () => this.todos.value.filter(todo => !todo.completed)
OpenTodosFn ==
    <<"this", ".", "todos", ".", "value", ".", "filter", "(", "todo", "=>",
      "!", "todo", ".", "completed", ")">>

\* what evaluating the text of an expression returns
EvalExpr(w, expr) ==
    CASE expr = OpenTodosFn ->
            Array(0, SelectSeq(FieldValue(w, "todos").items, LAMBDA todo : ~todo.completed))
      [] expr = <<"a", ".", "value", "+", "b", ".", "value">> ->
            Plus(FieldValue(w, "a"), FieldValue(w, "b"))
      [] expr = <<"this", ".", "count", ".", "value", "+", "1">> ->
            Plus(FieldValue(w, "count"), 1)
      [] expr = <<"this", ".", "count", ".", "value", "+", "this", ".", "count", ".", "value">> ->
            Plus(FieldValue(w, "count"), FieldValue(w, "count"))
      [] expr = <<"1">> -> 1
      [] OTHER -> Undefined

-----------------------------------------------------------------------------
(* KWM_Observable and KWM_Computed, on a world w = [value, subs, valueFn, trace] *)

\* valueFn(): the derivation of computed c evaluated on the current values
ValueFnStale(w, c) == w.value[c]
ValueFn(w, c) == EvalExpr(w, w.valueFn[c])

\* KWM_Bindings.mapping[attribute] ?? attribute
MappingIdentity(attribute) == attribute
Mapping(attribute) ==
    CASE attribute \in {"text", "innertext", "inner-text"} -> "innerText"
      [] attribute \in {"html", "innerhtml", "inner-html"} -> "innerHTML"
      [] OTHER -> attribute

\* setAttribute(elem, value, attribute): elem[attributeName] = value
SetAttributeIgnored(w, n, v, attribute) == w
SetAttribute(w, n, v, attribute) ==
    LET mapped == Mapping(attribute)
        attributeName == IF mapped = "value" /\ w.nodes[n].type = "checkbox"
                         THEN "checked" ELSE mapped
    IN  [w EXCEPT !.nodes[n].props = (attributeName :> v) @@ @]

\* setDisplay(elem, shouldDisplay): elem.style.display
SetDisplayShown(w, n, shouldDisplay) == [w EXCEPT !.nodes[n].display = ""]
SetDisplay(w, n, shouldDisplay) ==
    [w EXCEPT !.nodes[n].display = IF ~Truthy(shouldDisplay) THEN "none" ELSE ""]

\* the argument of a listener call in notify(): this._value, read when the
\* listener is called
ArgumentOfFirstCall(w, o) ==
    LET earlier == SelectSeq(w.trace, LAMBDA c : c.obs = o)
    IN  IF earlier = <<>> THEN w.value[o] ELSE earlier[1].arg
Argument(w, o) == w.value[o]

RECURSIVE NotifyFrom(_, _, _), Invoke(_, _, _), Render(_, _), ObservableSet(_, _, _, _)

\* notify(): this.forEach(listenerFn => listenerFn(this._value))
Notify(w, o) == NotifyFrom(w, o, 1)

RECURSIVE NotifyDownFrom(_, _, _)
NotifyDownFrom(w, o, i) ==
    IF i < 1 THEN w
    ELSE IF i > Len(w.subs[o]) \/ w.subs[o][i] = Empty THEN NotifyDownFrom(w, o, i - 1)
    ELSE NotifyDownFrom(Invoke(w, o, w.subs[o][i]), o, i - 1)
NotifyBackwards(w, o, i) == NotifyDownFrom(w, o, Len(w.subs[o]))

\* forEach visits the entries by index; it skips deleted entries and reaches
\* entries appended while it runs
NotifyFrom(w, o, i) ==
    IF i > Len(w.subs[o]) THEN w
    ELSE IF w.subs[o][i] = Empty THEN NotifyFrom(w, o, i + 1)
    ELSE NotifyFrom(Invoke(w, o, w.subs[o][i]), o, i + 1)

\* listenerFn(this._value), for each kind of listener this program registers
Invoke(w, o, fn) ==
    LET called == [w EXCEPT !.trace = Append(@, [obs |-> o, fn |-> fn, arg |-> Argument(w, o)])]
    IN  CASE fn.kind = "selfUnsub" ->
                [called EXCEPT !.subs[fn.obs] = SetDelete(@, fn)]
          [] fn.kind = "setter" ->
                ObservableSet(called, fn.obs, fn.id, TRUE)
          [] fn.kind = "computed" ->
                Notify([called EXCEPT !.value[fn.obs] = ValueFn(called, fn.obs)], fn.obs)
          [] fn.kind = "attr" ->
                SetAttribute(called, fn.elem, called.value[fn.obs], fn.attr)
          [] fn.kind = "showIf" ->
                SetDisplay(called, fn.elem, called.value[o])
          [] fn.kind = "render" ->
                Render(called, FALSE)
          [] OTHER -> called

\* the condition of set(): newValue !== this._value
Differs(w, o, newValue) == StrictNotEqual(newValue, w.value[o])

\* notifyListeners && this.notify()
ShouldNotifyAlways(notifyListeners) == TRUE
ShouldNotify(notifyListeners) == notifyListeners

\* set(newValue, notifyListeners = true)
ObservableSetNotifyingTwice(w, o, newValue, notifyListeners) ==
    IF Differs(w, o, newValue)
    THEN LET written == [w EXCEPT !.value[o] = newValue]
         IN  IF ShouldNotify(notifyListeners) THEN Notify(Notify(written, o), o) ELSE written
    ELSE w
ObservableSet(w, o, newValue, notifyListeners) ==
    IF Differs(w, o, newValue)
    THEN LET written == [w EXCEPT !.value[o] = newValue]
         IN  IF ShouldNotify(notifyListeners) THEN Notify(written, o) ELSE written
    ELSE w

\* subscribe(listenerFn): this.add(listenerFn)
ObservableSubscribeDuplicating(w, o, fn) == [w EXCEPT !.subs[o] = Append(@, fn)]
ObservableSubscribe(w, o, fn) == [w EXCEPT !.subs[o] = SetAdd(@, fn)]

\* the closure subscribe returns: () => this.delete(listenerFn)
ObservableUnsubscribe(w, o, fn) == [w EXCEPT !.subs[o] = SetDelete(@, fn)]

\* KWM_Computed.set / set value / update: throw "Cannot set computed property"
ComputedSetDelegating(w, c, x) == [ObservableSet(w, c, x, TRUE) EXCEPT !.thrown = ""]
ComputedSet(w, c, x) == [w EXCEPT !.thrown = "Cannot set computed property"]

-----------------------------------------------------------------------------
(* Markup.  The text template() returns is kept as the sequence of its     *)
(* elements, each with the directive attributes written on it.             *)

\* selector="expr" as one of the five patterns of the constructor matches it:
\* the family of the pattern, the whole attribute name, the (\w+) group
Directive(family, selector, name, expr) ==
    [family |-> family, selector |-> selector, name |-> name, expr |-> expr]

Element(tag, type, dirs) == [tag |-> tag, type |-> type, dirs |-> dirs]

RECURSIVE AllDirectives(_)
AllDirectives(markup) ==
    IF markup = <<>> THEN <<>> ELSE Head(markup).dirs \o AllDirectives(Tail(markup))

\* uiElementHtmlString.matchAll(regex): the matches of one pattern, in text order
Matches(markup, family) == SelectSeq(AllDirectives(markup), LAMBDA d : d.family = family)

\* the event types the host defines a handler property for (onkeyup, onchange,
\* onclick: accessors of HTMLElement.prototype), and one it does not define
HostEventTypes == {"keyup", "change", "click"}
EventTypes == HostEventTypes \cup {"saved"}

\* a node that innerHTML = ... has removed from the tree: nothing of the
\* program refers to it, apart from listener closures of its bindings
Detached ==
    [tag |-> "", type |-> "", attrs |-> <<>>, attached |-> FALSE, props |-> <<>>,
     display |-> "", own |-> {}, on |-> [t \in EventTypes |-> NoFn]]

\* this.innerHTML = newTemplate: the nodes the host creates for the markup
NewNodes(markup) ==
    [i \in 1..Len(markup) |->
        [tag |-> markup[i].tag, type |-> markup[i].type, attrs |-> markup[i].dirs,
         attached |-> TRUE,
         props |-> IF markup[i].tag = "input" THEN ("value" :> EmptyString) ELSE <<>>,
         display |-> "", own |-> {}, on |-> [t \in EventTypes |-> NoFn]]]

\* uiElement.querySelectorAll('[selector="expr"]'), in document order
RECURSIVE QuerySelectorAllFrom(_, _, _, _)
QuerySelectorAllFrom(w, selector, expr, n) ==
    IF n > Len(w.nodes) THEN <<>>
    ELSE (IF /\ w.nodes[n].attached
             /\ \E i \in 1..Len(w.nodes[n].attrs) :
                    /\ w.nodes[n].attrs[i].selector = selector
                    /\ w.nodes[n].attrs[i].expr = expr
          THEN <<n>> ELSE <<>>) \o QuerySelectorAllFrom(w, selector, expr, n + 1)
QuerySelectorAll(w, selector, expr) == QuerySelectorAllFrom(w, selector, expr, 1)

-----------------------------------------------------------------------------
(* KWM_Bindings *)

\* the characters of the pattern; the three quote characters are written out
Separators == {" ", "dquote", "quote", "backtick", "+", "-", "*", "?", ":", "=", "(", ")", "<", ">",
               "|&", "%", "!", "{", "}", "[", "]", "."}

\* getJsExpressionTokens: the characters of the pattern become '.', then split('.')
RECURSIVE GetJsExpressionTokensFrom(_, _, _)
GetJsExpressionTokensFrom(expr, i, token) ==
    IF i > Len(expr) THEN <<token>>
    ELSE IF expr[i] \in Separators
         THEN <<token>> \o GetJsExpressionTokensFrom(expr, i + 1, <<>>)
         ELSE GetJsExpressionTokensFrom(expr, i + 1, Append(token, expr[i]))
GetJsExpressionTokens(expr) == GetJsExpressionTokensFrom(expr, 1, <<>>)

\* the value of valueFn for a field of the component that holds a value that
\* is no KWM_Observable
NoObservable == <<"no observable">>

\* x instanceof KWM_Observable, for what a field of the component holds
InstanceOfObservable(w, o) == o # 0 /\ w.valueFn[o] # NoObservable

\* getDependentObservablesFromJsExpression: the fields named by a token that
\* directly follows the token this and that hold an Observable
GetDependentObservablesFromJsExpression(w, expr) ==
    LET jsExprTokens == GetJsExpressionTokens(expr)
        names == {i \in 2..Len(jsExprTokens) :
                     /\ jsExprTokens[i] # <<>>
                     /\ jsExprTokens[i - 1] = <<"this">>
                     /\ Len(jsExprTokens[i]) = 1
                     /\ jsExprTokens[i][1] \in DOMAIN w.fields
                     /\ InstanceOfObservable(w, w.fields[jsExprTokens[i][1]])}
        RECURSIVE Collect(_)
        Collect(i) ==
            IF i > Len(jsExprTokens) THEN <<>>
            ELSE (IF i \in names THEN <<w.fields[jsExprTokens[i][1]]>> ELSE <<>>) \o Collect(i + 1)
    IN  Collect(1)

\* jsCodeExpr.trim().replace('this.', ''): the text without its first "this."
RECURSIVE ReplaceThis(_)
ReplaceThis(expr) ==
    IF Len(expr) < 2 THEN expr
    ELSE IF expr[1] = "this" /\ expr[2] = "." THEN SubSeq(expr, 3, Len(expr))
    ELSE <<expr[1]>> \o ReplaceThis(Tail(expr))
RECURSIVE Trim(_)
Trim(expr) ==
    IF expr # <<>> /\ Head(expr) = " " THEN Trim(Tail(expr))
    ELSE IF expr # <<>> /\ expr[Len(expr)] = " " THEN Trim(SubSeq(expr, 1, Len(expr) - 1))
    ELSE expr
VariableName(expr) == ReplaceThis(Trim(expr))

\* this.component[variableName]: what the field holds, 0 for undefined
ComponentField(w, variableName) ==
    IF Len(variableName) = 1 /\ variableName[1] \in DOMAIN w.fields
    THEN w.fields[variableName[1]] ELSE 0

\* the entry of this.subscriptions for a binding that returned no unsubscribe
UndefinedUnsubscribe == [obs |-> 0, fn |-> NoFn]

\* the closure () => this.delete(listenerFn) that subscribe returns
UnsubscribeClosure(o, fn) == [obs |-> o, fn |-> fn]

\* bindAttribute(elem, data, attribute) for data instanceof KWM_Observable
BindAttribute(w, n, data, attribute) ==
    LET fn == [kind |-> "attr", id |-> w.made + 1, obs |-> data, elem |-> n, attr |-> attribute]
        written == SetAttribute(w, n, w.value[data], attribute)
        subscribed == ObservableSubscribe(written, data, fn)
    IN  [subscribed EXCEPT !.made = @ + 1,
                           !.createdIn.fn = Append(@, w.binds),
                           !.subscriptions = SetAdd(@, UnsubscribeClosure(data, fn))]

\* bindAttribute(elem, data, attribute) for any other data
BindAttributePlain(w, n, data, attribute) ==
    [SetAttribute(w, n, data, attribute) EXCEPT
        !.subscriptions = SetAdd(@, UndefinedUnsubscribe)]

\* dependantObserversArr.forEach(dep => dep.subscribe(listenerFn))
RECURSIVE SubscribeEach(_, _, _, _)
SubscribeEach(w, deps, fn, i) ==
    IF i > Len(deps) THEN w
    ELSE SubscribeEach(ObservableSubscribe(w, deps[i], fn), deps, fn, i + 1)

\* new KWM_Computed(valueFn, dependantObserversArr); the new Computed is Len(value)
NewComputed(w, expr, deps) ==
    LET c == Len(w.value) + 1
        constructed == [w EXCEPT !.value = Append(@, EvalExpr(w, expr)),
                                 !.subs = Append(@, <<>>),
                                 !.valueFn = Append(@, expr),
                                 !.createdIn.obs = Append(@, w.binds)]
    IN  SubscribeEach(constructed, deps, ComputedListenerFn(c), 1)

\* the body of the value-bind loop of applyBindings for one matched node
BindValue(w, d, n) ==
    LET matchedObservable == ComponentField(w, VariableName(d.expr))
        dependencies == GetDependentObservablesFromJsExpression(w, d.expr)
    IN  IF InstanceOfObservable(w, matchedObservable)
        THEN BindAttribute(w, n, matchedObservable, d.name)
        ELSE IF matchedObservable # 0
        THEN BindAttributePlain(w, n, w.value[matchedObservable], d.name)
        ELSE IF Len(dependencies) > 0
             THEN LET computed == NewComputed(w, d.expr, dependencies)
                  IN  BindAttribute(computed, n, Len(computed.value), d.name)
             ELSE BindAttributePlain(w, n, EvalExpr(w, d.expr), d.name)

\* setSingleInputListener(inputElem, observable) for an input that is no
\* checkbox or radio: onkeyup and onchange write inputElem.value back
SetSingleInputListener(w, n, observable) ==
    LET handler == [kind |-> "writeBack", id |-> 0, obs |-> observable, elem |-> n, attr |-> "value"]
    IN  [w EXCEPT !.nodes[n].on = [@ EXCEPT !["keyup"] = handler, !["change"] = handler]]

\* modelAttribute(elem, observable, attribute); what it returns is added to
\* this.subscriptions, undefined when observable is no KWM_Observable
ModelAttributeUnchecked(w, n, observable, attribute) ==
    BindAttribute(SetSingleInputListener(w, n, observable), n, observable, attribute)
ModelAttribute(w, n, observable, attribute) ==
    LET listening == IF /\ w.nodes[n].tag \in {"select", "input", "textarea"}
                        /\ attribute \in {"value", "checked"}
                     THEN SetSingleInputListener(w, n, observable) ELSE w
    IN  IF ~InstanceOfObservable(w, observable)
        THEN [w EXCEPT !.subscriptions = SetAdd(@, UndefinedUnsubscribe)]
        ELSE BindAttribute(listening, n, observable, attribute)

\* the body of the model-bind loop of applyBindings for one matched node
BindModel(w, d, n) ==
    LET observable == ComponentField(w, VariableName(d.expr))
    IN  IF observable # 0 THEN ModelAttribute(w, n, observable, d.name) ELSE w

\* the methods of the components (TodoComponent)
Methods == {"addTodo", "removeTodo", "toggleTodo"}

\* the decimal numerals that occur in markup, by their value
Numeral == <<"1", "2", "3", "4", "5", "6">>
NumberOf(lexeme) == CHOOSE i \in 1..Len(Numeral) : Numeral[i] = lexeme

\* what calling the function made from the expression text calls:
\* this.name() or this.name(number), nothing for any other text
CallTarget(expr) ==
    IF Len(expr) >= 5 /\ expr[1] = "this" /\ expr[2] = "." /\ expr[4] = "("
                      /\ expr[Len(expr)] = ")" /\ expr[3] \in Methods
    THEN expr[3] ELSE ""
CallArgument(expr) ==
    IF CallTarget(expr) # "" /\ Len(expr) = 6 THEN NumberOf(expr[5]) ELSE 0

\* listenerFunction: the method bound to the component when the text names
\* one, else a function that evaluates the text; a new function object in
\* every bind pass
ListenerFunction(w, expr, n) ==
    LET listenerFunctionName == VariableName(expr)
    IN  IF Len(listenerFunctionName) = 1 /\ listenerFunctionName[1] \in Methods
        THEN [kind |-> "listener", id |-> w.binds, obs |-> 0, elem |-> n,
              attr |-> listenerFunctionName[1]]
        ELSE [kind |-> "listener", id |-> w.binds, obs |-> CallArgument(expr), elem |-> n,
              attr |-> CallTarget(expr)]

\* Object.prototype.hasOwnProperty.call(elem, 'on' + type): the handler
\* properties the host defines are accessors of the prototype, never own
\* properties of a node
HasOwnHandlerProperty(node, type) == type \in node.own

\* elem['on' + type] = callback: the host's setter for its event types, a new
\* own property for any other
AssignHandler(w, n, type, callback) ==
    [w EXCEPT !.nodes[n].on[type] = callback,
              !.nodes[n].own = IF type \in HostEventTypes THEN @ ELSE @ \cup {type}]

\* bindSingleEventListener(elem, type, callback)
BindSingleEventListenerAlways(w, n, type, callback) == AssignHandler(w, n, type, callback)
BindSingleEventListener(w, n, type, callback) ==
    IF ~HasOwnHandlerProperty(w.nodes[n], type) THEN AssignHandler(w, n, type, callback) ELSE w

\* the body of the listener-bind loop of applyBindings for one matched node;
\* listenerFunction is never undefined
BindListener(w, d, n) ==
    IF d.name \in EventTypes
    THEN BindSingleEventListener(w, n, d.name, ListenerFunction(w, d.expr, n))
    ELSE w

\* bindElementReference(elem, variableName, componentData):
\* componentData[variableName] = elem
BindElementReference(w, n, variableName) ==
    [w EXCEPT !.value[w.fields[variableName]] = n,
              !.valueFn[w.fields[variableName]] = NoObservable]

\* the body of the reference-bind loop of applyBindings for one matched node
BindRef(w, d, n) ==
    LET variableName == VariableName(d.expr)
    IN  IF Len(variableName) = 1 /\ variableName[1] \in DOMAIN w.fields
        THEN BindElementReference(w, n, variableName[1]) ELSE w

\* bindShowIf(elem, data) for data instanceof KWM_Observable
BindShowIf(w, n, data) ==
    LET fn == [kind |-> "showIf", id |-> w.made + 1, obs |-> data, elem |-> n, attr |-> ""]
        displayed == SetDisplay(w, n, w.value[data])
        subscribed == ObservableSubscribe(displayed, data, fn)
    IN  [subscribed EXCEPT !.made = @ + 1,
                           !.createdIn.fn = Append(@, w.binds),
                           !.subscriptions = SetAdd(@, UnsubscribeClosure(data, fn))]

\* bindShowIf(elem, data) for any other data
BindShowIfPlain(w, n, data) ==
    [SetDisplay(w, n, data) EXCEPT !.subscriptions = SetAdd(@, UndefinedUnsubscribe)]

\* the body of the show-if loop of applyBindings for one matched node
BindShow(w, d, n) ==
    LET matchedObservable == ComponentField(w, VariableName(d.expr))
        dependencies == GetDependentObservablesFromJsExpression(w, d.expr)
    IN  IF InstanceOfObservable(w, matchedObservable)
        THEN BindShowIf(w, n, matchedObservable)
        ELSE IF matchedObservable # 0
        THEN BindShowIfPlain(w, n, w.value[matchedObservable])
        ELSE IF Len(dependencies) > 0
             THEN LET computed == NewComputed(w, d.expr, dependencies)
                  IN  BindShowIf(computed, n, Len(computed.value))
             ELSE BindShowIfPlain(w, n, EvalExpr(w, d.expr))

\* one loop of applyBindings: for each match, for each node querySelectorAll finds
RECURSIVE ForEachElem(_, _, _, _), ForEachMatch(_, _, _)
ForEachElem(w, d, elems, j) ==
    IF j > Len(elems) THEN w
    ELSE ForEachElem(CASE d.family = "value" -> BindValue(w, d, elems[j])
                       [] d.family = "listener" -> BindListener(w, d, elems[j])
                       [] d.family = "model" -> BindModel(w, d, elems[j])
                       [] d.family = "ref" -> BindRef(w, d, elems[j])
                       [] d.family = "show" -> BindShow(w, d, elems[j]),
                     d, elems, j + 1)
ForEachMatch(w, matches, i) ==
    IF i > Len(matches) THEN w
    ELSE ForEachMatch(
            ForEachElem(w, matches[i], QuerySelectorAll(w, matches[i].selector, matches[i].expr), 1),
            matches, i + 1)

\* applyBindings(uiElement): the five loops in the order of the code.  No
\* node of the modelled markup is a KWM_Component with props (bindProperty).
ApplyBindings(w) ==
    LET valueBound == ForEachMatch(w, Matches(w.templateCache, "value"), 1)
        listenerBound == ForEachMatch(valueBound, Matches(w.templateCache, "listener"), 1)
        modelBound == ForEachMatch(listenerBound, Matches(w.templateCache, "model"), 1)
        refBound == ForEachMatch(modelBound, Matches(w.templateCache, "ref"), 1)
    IN  ForEachMatch(refBound, Matches(w.templateCache, "show"), 1)

\* this.subscriptions.forEach(unsubscribe => unsubscribe ? unsubscribe() : null)
RECURSIVE UnsubscribeEach(_, _)
UnsubscribeEach(w, i) ==
    IF i > Len(w.subscriptions) THEN w
    ELSE UnsubscribeEach(
            IF w.subscriptions[i] = UndefinedUnsubscribe THEN w
            ELSE ObservableUnsubscribe(w, w.subscriptions[i].obs, w.subscriptions[i].fn),
            i + 1)

\* a step of a render, with the markup it produced or read
Step(name, markup) == [step |-> name, markup |-> markup]

\* bind(); applyBindings reads uiElement._templateCache
Bind(w) ==
    LET unsubscribed == UnsubscribeEach(w, 1)
    IN  ApplyBindings([unsubscribed EXCEPT !.subscriptions = <<>>, !.binds = @ + 1,
                                           !.steps = Append(@, Step("bind", w.templateCache))])

-----------------------------------------------------------------------------
(* KWM_Component *)

\* the <li> of one open todo: its checkbox, its text and its remove button
TodoItem(todo) ==
    <<Element("input", "checkbox",
              <<Directive("listener", "kwm-listen-click", "click",
                          <<"this", ".", "toggleTodo", "(", Numeral[todo.id], ")">>)>>),
      Element("span", "", <<>>),
      Element("button", "",
              <<Directive("listener", "kwm-listen-click", "click",
                          <<"this", ".", "removeTodo", "(", Numeral[todo.id], ")">>)>>)>>

\* this.openTodos.value.map(todo => `<li>...</li>`).join('')
RECURSIVE TodoItems(_)
TodoItems(todos) ==
    IF todos = <<>> THEN <<>> ELSE TodoItem(Head(todos)) \o TodoItems(Tail(todos))

\* template(): the markup for the current state of the component; the
\* template of TodoComponent lists its open todos
Template(w) ==
    IF "openTodos" \in DOMAIN w.fields
    THEN w.template \o TodoItems(FieldValue(w, "openTodos").items)
    ELSE w.template

\* onFirstRender() and onRender(): hooks that do nothing unless overridden
OnFirstRender(w) == [w EXCEPT !.lifecycle.onFirstRender = @ + 1]
OnRender(w) == [w EXCEPT !.steps = Append(@, Step("onRender", <<>>))]

\* connectedCallback(): the host calls it when the component enters the tree
ConnectedCallback(w) ==
    IF ~w.mounted THEN [OnFirstRender(w) EXCEPT !.mounted = TRUE] ELSE w

\* the host puts the component into the UI tree (container.appendChild(this)
\* with a container of the tree, or an insertion by the application)
AppendChild(w) == ConnectedCallback([w EXCEPT !.lifecycle.connected = TRUE])

\* if (!this._bindings) this._bindings = new KWM_Bindings(this, this)
EnsureBindingsAlwaysNew(w) == [w EXCEPT !.bindings = TRUE, !.lifecycle.engines = @ + 1]
EnsureBindings(w) ==
    IF ~w.bindings THEN [w EXCEPT !.bindings = TRUE, !.lifecycle.engines = @ + 1] ELSE w

\* render(container); the focus it saves and restores is state of the host
\* that no binding reads
Render(w, container) ==
    LET newTemplate == Template(w)
        cached == [w EXCEPT !.templateCache = newTemplate,
                            !.steps = Append(@, Step("template", newTemplate))]
        replaced == [cached EXCEPT !.nodes = [n \in 1..Len(@) |-> Detached]
                                             \o NewNodes(newTemplate),
                                   !.steps = Append(@, Step("innerHTML", newTemplate))]
        inserted == IF container THEN AppendChild([replaced EXCEPT !.mounted = TRUE])
                    ELSE replaced
    IN  OnRender(Bind(EnsureBindings(inserted)))

\* how many closures () => this.render() are subscribed
RECURSIVE RenderFns(_, _)
RenderFns(w, o) ==
    IF o > Len(w.subs) THEN 0
    ELSE Len(SelectSeq(w.subs[o], LAMBDA fn : fn.kind = "render")) + RenderFns(w, o + 1)

\* the closure () => this.render() registerRenderDependencies subscribes, a
\* new function object for every element of the list
RenderFn(w) == [kind |-> "render", id |-> RenderFns(w, 1) + 1, obs |-> 0, elem |-> 0, attr |-> ""]

\* registerRenderDependencies(observables): observables.forEach(...); an
\* element that is no Observable (0, or a field holding another value) is
\* passed to console.error
RECURSIVE RegisterEachUntilError(_, _, _)
RegisterEachUntilError(w, observables, i) ==
    IF i > Len(observables) THEN w
    ELSE IF InstanceOfObservable(w, observables[i])
         THEN RegisterEachUntilError(ObservableSubscribe(w, observables[i], RenderFn(w)),
                                     observables, i + 1)
         ELSE [w EXCEPT !.errors = Append(@, observables[i])]
RECURSIVE RegisterEach(_, _, _)
RegisterEach(w, observables, i) ==
    IF i > Len(observables) THEN w
    ELSE RegisterEach(IF InstanceOfObservable(w, observables[i])
                      THEN ObservableSubscribe(w, observables[i], RenderFn(w))
                      ELSE [w EXCEPT !.errors = Append(@, observables[i])],
                      observables, i + 1)
RegisterRenderDependencies(w, observables) ==
    RegisterEach([w EXCEPT !.list = observables], observables, 1)

\* an array object that is not the one Observable o holds
NewArray(w, o, items) == Array(1 - w.value[o].ref, items)

\* TodoModel.addTodo(todoText); Date.now() is w.now
ModelAddTodo(w, todoText) ==
    LET newTodo == [id |-> w.now, text |-> todoText, completed |-> FALSE]
        todos == w.fields["todos"]
    IN  ObservableSet(w, todos, NewArray(w, todos, Append(w.value[todos].items, newTodo)), TRUE)

\* TodoModel.removeTodo(todoId)
ModelRemoveTodo(w, todoId) ==
    LET todos == w.fields["todos"]
    IN  ObservableSet(w, todos,
                      NewArray(w, todos, SelectSeq(w.value[todos].items,
                                                   LAMBDA todo : todo.id # todoId)),
                      TRUE)

\* TodoModel.toggleTodo(todoId)
ModelToggleTodo(w, todoId) ==
    LET todos == w.fields["todos"]
        items == w.value[todos].items
    IN  ObservableSet(w, todos,
                      NewArray(w, todos,
                               [i \in 1..Len(items) |->
                                   IF items[i].id = todoId
                                   THEN [items[i] EXCEPT !.completed = ~@] ELSE items[i]]),
                      TRUE)

\* TodoComponent.addTodo(): a text that is not blank is added, then the
\* input is emptied
AddTodo(w) ==
    LET newTodoText == w.fields["newTodoText"]
        added == IF w.value[newTodoText] # EmptyString
                 THEN ModelAddTodo(w, w.value[newTodoText]) ELSE w
    IN  ObservableSet(added, newTodoText, EmptyString, TRUE)

\* a handler the engine has put on a node, called by the host for an event
Handle(w, handler) ==
    CASE handler.kind = "writeBack" ->
            ObservableSet(w, handler.obs, w.nodes[handler.elem].props["value"], TRUE)
      [] handler.kind = "listener" /\ handler.attr = "addTodo" -> AddTodo(w)
      [] handler.kind = "listener" /\ handler.attr = "removeTodo" ->
            ModelRemoveTodo(w, handler.obs)
      [] handler.kind = "listener" /\ handler.attr = "toggleTodo" ->
            ModelToggleTodo(w, handler.obs)
      [] OTHER -> w

-----------------------------------------------------------------------------
(* The observables of the calling code: a and b are plain, c is computed   *)
(* from them: c = compute(() => a.value + b.value, [a, b]).                *)

A == 1
B == 2
C == 3
Plain == {A, B}
Obs == {A, B, C}

SumOfAB == <<"a", ".", "value", "+", "b", ".", "value">>

\* the listeners calling code subscribes to observable o
UserFns(o) ==
    CASE o = A -> {LogFn(k) : k \in 1..NumFns} \cup {SelfUnsubFn(A)}
      [] o = C -> {LogFn(1)}
      [] OTHER -> {}

World == [value |-> value, subs |-> subs, valueFn |-> valueFn, fields |-> fields,
          template |-> template, templateCache |-> templateCache, nodes |-> nodes,
          mounted |-> mounted, bindings |-> bindings, subscriptions |-> subscriptions,
          binds |-> binds, made |-> made, createdIn |-> createdIn, lifecycle |-> lifecycle,
          now |-> 0, trace |-> <<>>, steps |-> <<>>, list |-> <<>>, errors |-> <<>>,
          thrown |-> ""]

\* what every outermost call leaves behind: the deleted entries are unobservable
Commit(world, op, o, fn, arg, notifyListeners) ==
    \E w \in {world} :
        /\ w.binds <= MaxBinds
        /\ value' = w.value
        /\ subs' = [x \in DOMAIN w.subs |-> Live(w.subs[x])]
        /\ valueFn' = w.valueFn
        /\ fields' = w.fields
        /\ template' = w.template
        /\ templateCache' = w.templateCache
        /\ nodes' = w.nodes
        /\ mounted' = w.mounted
        /\ bindings' = w.bindings
        /\ subscriptions' = w.subscriptions
        /\ binds' = w.binds
        /\ made' = w.made
        /\ createdIn' = w.createdIn
        /\ lifecycle' = w.lifecycle
        /\ last' = [op |-> op, obs |-> o, fn |-> fn, arg |-> arg, notify |-> notifyListeners,
                    changed |-> op = "set" /\ Differs(World, o, arg),
                    chained |-> /\ op = "set" /\ notifyListeners
                                /\ last.op = "set" /\ last.obs = o /\ last.notify
                                /\ last.changed,
                    trace |-> w.trace, steps |-> w.steps, list |-> w.list,
                    errors |-> w.errors, thrown |-> w.thrown]

Init ==
    /\ \E a \in Values, b \in Values : value = <<a, b, Plus(a, b)>>
    /\ subs = <<(<<ComputedListenerFn(C)>>), (<<ComputedListenerFn(C)>>), (<<>>)>>
    /\ valueFn = <<(<<>>), (<<>>), SumOfAB>>
    /\ fields = [a |-> A, b |-> B, c |-> C]
    /\ template = <<>>
    /\ templateCache = <<>>
    /\ nodes = <<>>
    /\ mounted = FALSE
    /\ bindings = FALSE
    /\ subscriptions = <<>>
    /\ binds = 0
    /\ made = 0
    /\ createdIn = [obs |-> <<0, 0, 0>>, fn |-> <<>>]
    /\ lifecycle = [connected |-> FALSE, onFirstRender |-> 0, engines |-> 0]
    /\ last = [op |-> "new", obs |-> 0, fn |-> NoFn, arg |-> 0, notify |-> FALSE,
               changed |-> FALSE, chained |-> FALSE, trace |-> <<>>, steps |-> <<>>,
               list |-> <<>>, errors |-> <<>>, thrown |-> ""]

\* o.subscribe(fn), also of a function that is subscribed already
Subscribe ==
    \E o \in Obs : \E fn \in UserFns(o) :
        Commit(ObservableSubscribe(World, o, fn), "subscribe", o, fn, 0, FALSE)

\* calling the unsubscribe closure that subscribe(fn) returned
Unsubscribe ==
    \E o \in Obs : \E fn \in UserFns(o) :
        /\ Has(subs[o], fn)
        /\ Commit(ObservableUnsubscribe(World, o, fn), "unsubscribe", o, fn, 0, FALSE)

\* o.set(v, notifyListeners); o.value = v is o.set(v)
Set ==
    \E o \in Plain, v \in Values, n \in BOOLEAN :
        Commit(ObservableSet(World, o, v, n), "set", o, NoFn, v, n)

\* c.set(x), c.value = x, c.update(x) on the computed
MutateComputed ==
    \E x \in Values, how \in {"set", "value=", "update"} :
        Commit(ComputedSet(World, C, x), how, C, NoFn, x, TRUE)

Next == Subscribe \/ Unsubscribe \/ Set \/ MutateComputed

Spec == Init /\ [][Next]_vars

\* a.subscribe(() => a.set(v)): one listener that sets the Observable it
\* listens to; two of them with different values would call each other
\* without end, and so would one that sets NaN
SubscribeSetter ==
    \E v \in 0..MaxVal :
        /\ \A i \in 1..Len(subs[A]) : subs[A][i].kind # "setter"
        /\ Commit(ObservableSubscribe(World, A, SetterFn(A, v)),
                  "subscribe", A, SetterFn(A, v), 0, FALSE)

\* a.subscribe(fn) of a listener that only observes
SubscribeLog ==
    \E k \in 1..NumFns :
        Commit(ObservableSubscribe(World, A, LogFn(k)), "subscribe", A, LogFn(k), 0, FALSE)

NextReentrant == SubscribeLog \/ SubscribeSetter \/ Set

SpecReentrant == Init /\ [][NextReentrant]_vars

-----------------------------------------------------------------------------------------------------------------------------------------------------
(* Components: a class of component is its fields, what its constructor    *)
(* makes them hold (values, derivations, subscribers), and the markup its  *)
(* template() returns.                                                     *)

\* the fields of a component are KWM_Observables nobody has subscribed to,
\* unless the class says otherwise
Component(fieldNames, values, markup) ==
    [fields |-> fieldNames, values |-> values,
     valueFns |-> [i \in 1..Len(values) |-> <<>>],
     subs |-> [i \in 1..Len(values) |-> <<>>],
     template |-> markup]

ThisCount == <<"this", ".", "count">>
ThisNewTodoText == <<"this", ".", "newTodoText">>
ThisCountValuePlus1 == <<"this", ".", "count", ".", "value", "+", "1">>

\* count = new KWM_Observable(0);
\* <span kwm-bind-text="this.count"></span> <span kwm-bind-title="1"></span>
CounterComponent ==
    Component([count |-> 1], <<0>>,
        <<Element("span", "", <<Directive("value", "kwm-bind-text", "text", ThisCount)>>),
          Element("span", "", <<Directive("value", "kwm-bind-title", "title", <<"1">>)>>)>>)

\* count = new KWM_Observable(0);
\* <span kwm-bind-text="this.count.value+1"></span>
ExpressionComponent ==
    Component([count |-> 1], <<0>>,
        <<Element("span", "", <<Directive("value", "kwm-bind-text", "text", ThisCountValuePlus1)>>)>>)

\* newTodoText = new KWM_Observable('');
\* <input kwm-model-value="this.newTodoText" />
FormComponent ==
    Component([newTodoText |-> 1], <<EmptyString>>,
        <<Element("input", "text", <<Directive("model", "kwm-model-value", "value", ThisNewTodoText)>>)>>)

\* flag = new KWM_Observable(false); count = new KWM_Observable(0);
\* <div kwm-if="this.flag"></div> <span kwm-bind-text="this.count"></span>
ToggleComponent ==
    Component([flag |-> 1, count |-> 2], <<0, 0>>,
        <<Element("div", "", <<Directive("show", "kwm-if", "", <<"this", ".", "flag">>)>>),
          Element("span", "", <<Directive("value", "kwm-bind-text", "text", ThisCount)>>)>>)

\* count = new KWM_Observable(0);
\* <span kwm-bind-text="this.count.value+this.count.value"></span>
DoubleComponent ==
    Component([count |-> 1], <<0>>,
        <<Element("span", "",
                  <<Directive("value", "kwm-bind-text", "text",
                              <<"this", ".", "count", ".", "value", "+",
                                "this", ".", "count", ".", "value">>)>>)>>)

\* TodoComponent: todos = todoModelInstance.todos (an empty array);
\* newTodoText = new KWM_Observable(''); openTodos = new KWM_Computed(...,
\* [this.todos]); this.todos.subscribe(() => this.render());
\* <input kwm-model-value="this.newTodoText" />
\* <button kwm-listen-click="this.addTodo()">Add Todo</button> and the open todos
TodoComponentRenderFirst ==
    [fields |-> [todos |-> 1, newTodoText |-> 2, openTodos |-> 3],
     values |-> <<Array(0, <<>>), EmptyString, Array(0, <<>>)>>,
     valueFns |-> <<(<<>>), (<<>>), OpenTodosFn>>,
     subs |-> <<(<<[kind |-> "render", id |-> 1, obs |-> 0, elem |-> 0, attr |-> ""],
                  ComputedListenerFn(3)>>),
                (<<>>), (<<>>)>>,
     template |->
        <<Element("input", "text",
                  <<Directive("model", "kwm-model-value", "value", ThisNewTodoText)>>),
          Element("button", "",
                  <<Directive("listener", "kwm-listen-click", "click",
                              <<"this", ".", "addTodo", "(", ")">>)>>)>>]
TodoComponent ==
    [fields |-> [todos |-> 1, newTodoText |-> 2, openTodos |-> 3],
     values |-> <<Array(0, <<>>), EmptyString, Array(0, <<>>)>>,
     valueFns |-> <<(<<>>), (<<>>), OpenTodosFn>>,
     subs |-> <<(<<ComputedListenerFn(3),
                  [kind |-> "render", id |-> 1, obs |-> 0, elem |-> 0, attr |-> ""]>>),
                (<<>>), (<<>>)>>,
     template |->
        <<Element("input", "text",
                  <<Directive("model", "kwm-model-value", "value", ThisNewTodoText)>>),
          Element("button", "",
                  <<Directive("listener", "kwm-listen-click", "click",
                              <<"this", ".", "addTodo", "(", ")">>)>>)>>]

\* count = new KWM_Observable(0);
\* <button kwm-listen-click="this.addTodo()" on-click="this.removeTodo(1)"
\*         kwm-listen-saved="this.addTodo()" on-saved="this.removeTodo(1)"></button>
ListenerComponent ==
    Component([count |-> 1], <<0>>,
        <<Element("button", "",
                  <<Directive("listener", "kwm-listen-click", "click",
                              <<"this", ".", "addTodo", "(", ")">>),
                    Directive("listener", "on-click", "click",
                              <<"this", ".", "removeTodo", "(", "1", ")">>),
                    Directive("listener", "kwm-listen-saved", "saved",
                              <<"this", ".", "addTodo", "(", ")">>),
                    Directive("listener", "on-saved", "saved",
                              <<"this", ".", "removeTodo", "(", "1", ")">>)>>)>>)

ThisMissing == <<"this", ".", "missing">>

\* count = new KWM_Observable(0); title = 'x';
\* <span kwm-bind-text="this.missing"></span> <p kwm-if="this.missing"></p>
\* <button kwm-listen-click="this.missing"></button>
\* <input kwm-model-value="this.missing" /> <div kwm-ref="this.missing"></div>
\* <input kwm-model-value="this.title" /> <span kwm-bind-text="this.count"></span>
BrokenComponent ==
    [Component([count |-> 1, title |-> 2], <<0, 1>>,
        <<Element("span", "", <<Directive("value", "kwm-bind-text", "text", ThisMissing)>>),
          Element("p", "", <<Directive("show", "kwm-if", "", ThisMissing)>>),
          Element("button", "", <<Directive("listener", "kwm-listen-click", "click", ThisMissing)>>),
          Element("input", "text", <<Directive("model", "kwm-model-value", "value", ThisMissing)>>),
          Element("div", "", <<Directive("ref", "kwm-ref", "", ThisMissing)>>),
          Element("input", "text",
                  <<Directive("model", "kwm-model-value", "value", <<"this", ".", "title">>)>>),
          Element("span", "", <<Directive("value", "kwm-bind-text", "text", ThisCount)>>)>>)
     EXCEPT !.valueFns[2] = NoObservable]

\* the references of the expressions below: this.x, this.x.value, this.y and
\* this.t, where x and y hold KWM_Observables and t holds a plain value
References ==
    {<<"this", ".", "x">>, <<"this", ".", "x", ".", "value">>, <<"this", ".", "y">>,
     <<"this", ".", "t">>}

\* what an expression puts between two references
Joins ==
    {<<" ">>, <<"+">>, <<",">>, <<"/">>, <<"&", "&">>, <<"|", "|">>, <<" ", "&", "&", " ">>,
     <<"[">>}

\* the expression texts of the markup: one reference, or two with a join
Expressions == References \cup {l \o j \o r : l \in References, j \in Joins, r \in References}

\* x = new KWM_Observable(0); y = new KWM_Observable(0); t = 1;
\* <span kwm-bind-text="expr"></span> <p kwm-if="expr"></p>
ExprComponent(expr) ==
    [Component([x |-> 1, y |-> 2, t |-> 3], <<0, 0, 1>>,
        <<Element("span", "", <<Directive("value", "kwm-bind-text", "text", expr)>>),
          Element("p", "", <<Directive("show", "kwm-if", "", expr)>>)>>)
     EXCEPT !.valueFns[3] = NoObservable]


\* count = new KWM_Observable(0);
\* <span kwm-bind-text="this.count"></span> <span kwm-bind-text="this.count"></span>
\* <p kwm-if="this.count"></p> <p kwm-if="this.count"></p>
TwinComponent ==
    Component([count |-> 1], <<0>>,
        <<Element("span", "", <<Directive("value", "kwm-bind-text", "text", ThisCount)>>),
          Element("span", "", <<Directive("value", "kwm-bind-text", "text", ThisCount)>>),
          Element("p", "", <<Directive("show", "kwm-if", "", ThisCount)>>),
          Element("p", "", <<Directive("show", "kwm-if", "", ThisCount)>>)>>)

Components ==
    {CounterComponent, ExpressionComponent, FormComponent, ToggleComponent, BrokenComponent,
     ListenerComponent}

\* a component of one of the given classes, constructed
Constructed(components) ==
    /\ \E component \in components :
          /\ value = component.values
          /\ fields = component.fields
          /\ template = component.template
          /\ subs = component.subs
          /\ valueFn = component.valueFns
          /\ createdIn = [obs |-> [i \in 1..Len(component.values) |-> 0], fn |-> <<>>]
    /\ templateCache = <<>>
    /\ nodes = <<>>
    /\ mounted = FALSE
    /\ bindings = FALSE
    /\ subscriptions = <<>>
    /\ binds = 0
    /\ made = 0
    /\ lifecycle = [connected |-> FALSE, onFirstRender |-> 0, engines |-> 0]
    /\ last = [op |-> "new", obs |-> 0, fn |-> NoFn, arg |-> 0, notify |-> FALSE,
               changed |-> FALSE, chained |-> FALSE, trace |-> <<>>, steps |-> <<>>,
               list |-> <<>>, errors |-> <<>>, thrown |-> ""]

InitBind == Constructed(Components)

\* component.render(container) or component.render()
RenderComponent ==
    \E container \in BOOLEAN :
        /\ binds < MaxBinds
        /\ Commit(Render(World, container), "render", 0, NoFn, 0, container)

\* the application or the host inserts the component into the UI tree
Connect ==
    Commit(AppendChild(World), "connect", 0, NoFn, 0, FALSE)

\* the lists registerRenderDependencies is called with: fields of the
\* component and values that are no Observable (0)
DependencyLists ==
    UNION {[1..len -> {fields[f] : f \in DOMAIN fields} \cup {0}] : len \in 1..MaxDeps}

\* component.registerRenderDependencies(observables), called once by a
\* component (in its constructor or later)
RegisterDependencies ==
    \E observables \in DependencyLists :
        /\ RenderFns(World, 1) = 0
        /\ Commit(RegisterRenderDependencies(World, observables),
                  "registerRenderDependencies", 0, NoFn, 0, FALSE)

\* component._bindings.bind() on the markup of the last render
BindAgain ==
    /\ bindings
    /\ binds < MaxBinds
    /\ Commit(Bind(World), "bind", 0, NoFn, 0, FALSE)

\* this.count.set(v, notifyListeners), this.newTodoText.set(v, notifyListeners)
SetField ==
    \E f \in DOMAIN fields \ {"todos"}, v \in Values, n \in BOOLEAN :
        /\ valueFn[fields[f]] = <<>>
        /\ Commit(ObservableSet(World, fields[f], v, n), "set", fields[f], NoFn, v, n)

\* the user types v into a text input of the tree: the host stores it in the
\* node's value, then calls the node's onkeyup or onchange handler if it has one
InputEvent ==
    \E n \in 1..Len(nodes), v \in Values, type \in {"keyup", "change"} :
        /\ nodes[n].attached
        /\ nodes[n].tag = "input"
        /\ nodes[n].type = "text"
        /\ LET typed == [World EXCEPT !.nodes[n].props = ("value" :> v) @@ @]
           IN  Commit(IF nodes[n].on[type] # NoFn THEN Handle(typed, nodes[n].on[type]) ELSE typed,
                      type, n, NoFn, v, TRUE)

\* the times Date.now() can return: the clock does not run backwards, so the
\* time of the latest todo of the list (the same millisecond) or a later one
RECURSIVE Latest(_)
Latest(todos) ==
    IF todos = <<>> THEN 0
    ELSE LET rest == Latest(Tail(todos))
         IN  IF Head(todos).id > rest THEN Head(todos).id ELSE rest
Clock ==
    IF "todos" \in DOMAIN fields
    THEN {t \in {Latest(value[fields["todos"]].items), Latest(value[fields["todos"]].items) + 1} :
             t >= 1}
    ELSE {1}

\* the application shows the component: the router renders it into its
\* container, once
Mount ==
    /\ binds = 0
    /\ Commit(Render(World, TRUE), "render", 0, NoFn, 0, TRUE)

\* the user clicks a node of the tree: the host calls the node's onclick
\* handler if it has one; now is what Date.now() returns to a handler that
\* reads the clock (addTodo)
ClickEvent ==
    \E n \in 1..Len(nodes) :
      \E now \in IF nodes[n].on["click"].attr = "addTodo" THEN Clock ELSE {0} :
        /\ nodes[n].attached
        /\ nodes[n].on["click"] # NoFn
        /\ Commit(Handle([World EXCEPT !.now = now], nodes[n].on["click"]),
                  "click", n, nodes[n].on["click"], now, TRUE)

NextBind == RenderComponent \/ BindAgain \/ SetField \/ InputEvent

SpecBind == InitBind /\ [][NextBind]_vars

\* components that the host or render(container) puts into the UI tree
InitLifecycle == Constructed({CounterComponent, FormComponent})

NextLifecycle == Connect \/ RenderComponent \/ SetField

SpecLifecycle == InitLifecycle /\ [][NextLifecycle]_vars

\* components whose markup makes the engine synthesize Computeds
InitComputed == Constructed({ExpressionComponent, DoubleComponent})

NextComputed == RenderComponent \/ SetField

SpecComputed == InitComputed /\ [][NextComputed]_vars

\* the todo list of the application
InitTodo == Constructed({TodoComponent})

NextTodo == Mount \/ InputEvent \/ ClickEvent

SpecTodo == InitTodo /\ [][NextTodo]_vars

\* components that re-render when an Observable they registered notifies
InitDeps == Constructed({CounterComponent, FormComponent})

NextDeps == RegisterDependencies \/ RenderComponent \/ SetField

SpecDeps == InitDeps /\ [][NextDeps]_vars

\* KWM_Bindings.getDependentObservablesFromJsExpression(jsExpression, component),
\* called with the expression of a directive of the markup
Discover ==
    \E e \in 1..Len(template) :
        Commit([World EXCEPT !.list = GetDependentObservablesFromJsExpression(
                                          World, template[e].dirs[1].expr)],
               "discover", e, NoFn, 0, FALSE)

\* components whose directives hold expressions with one or two references
InitExpr == Constructed({ExprComponent(expr) : expr \in Expressions})

NextExpr == Discover \/ RenderComponent \/ SetField

SpecExpr == InitExpr /\ [][NextExpr]_vars

\* components with one directive text on one node and on several nodes
InitTwin == Constructed({ToggleComponent, TwinComponent})

NextTwin == RenderComponent \/ BindAgain \/ SetField

SpecTwin == InitTwin /\ [][NextTwin]_vars

\* the ids calling code passes to removeTodo and toggleTodo: those of the list
\* and one that no todo has
TodoIds == 1..(Latest(value[fields["todos"]].items) + 1)

\* todoModelInstance.addTodo(todoText), called by any code of the application;
\* every change of todos renders the component, and the renders of a run are
\* bounded
AddTodoCall ==
    \E todoText \in Values, now \in Clock :
        /\ binds < MaxBinds
        /\ Commit(ModelAddTodo([World EXCEPT !.now = now], todoText),
                  "addTodo", fields["todos"], NoFn, now, TRUE)

\* todoModelInstance.removeTodo(todoId)
RemoveTodoCall ==
    \E todoId \in TodoIds :
        /\ binds < MaxBinds
        /\ Commit(ModelRemoveTodo(World, todoId), "removeTodo", fields["todos"], NoFn, todoId, TRUE)

\* todoModelInstance.toggleTodo(todoId)
ToggleTodoCall ==
    \E todoId \in TodoIds :
        /\ binds < MaxBinds
        /\ Commit(ModelToggleTodo(World, todoId), "toggleTodo", fields["todos"], NoFn, todoId, TRUE)

\* the shared model, changed by any code, and the component that shows it
InitModel == Constructed({TodoComponent})

NextModel == RenderComponent \/ AddTodoCall \/ RemoveTodoCall \/ ToggleTodoCall

SpecModel == InitModel /\ [][NextModel]_vars

-----------------------------------------------------------------------------
(* What the claims speak about *)

\* the listeners a trace invoked on observable o, in the order of the calls
FnsCalled(tr, o) ==
    LET on == SelectSeq(tr, LAMBDA c : c.obs = o) IN [i \in 1..Len(on) |-> on[i].fn]

\* how often a trace invoked listener fn on observable o
TimesCalled(tr, o, fn) == Len(SelectSeq(tr, LAMBDA c : c.obs = o /\ c.fn = fn))

\* the sequence s without fn
Without(s, fn) == SelectSeq(s, LAMBDA e : e # fn)

\* x !== y, written out
NotSame(x, y) == ~(x = y /\ x # NaN)

IsSet(l) == l.op = "set" /\ l.obs \in Plain
Notified(l) == IsSet(l) /\ l.notify /\ l.changed

-----------------------------------------------------------------------------
\* C1: set(newValue, notify) stores newValue; when newValue !== the current value
\* and notify is true, every subscriber registered at that moment is invoked
\* within the call with the new value; when the value is the same or notify is
\* false, no listener at all is invoked.
C1_SetReplacesAndNotifies ==
    [][IsSet(last') =>
          LET o == last'.obs
              v == last'.arg
          IN  /\ last'.changed = NotSame(v, value[o])
              /\ value'[o] = IF NotSame(v, value[o]) THEN v ELSE value[o]
              /\ IF NotSame(v, value[o]) /\ last'.notify
                 THEN /\ \A i \in 1..Len(subs[o]) : TimesCalled(last'.trace, o, subs[o][i]) >= 1
                      /\ \A i \in 1..Len(last'.trace) :
                            last'.trace[i].obs = o => last'.trace[i].arg = v
                 ELSE last'.trace = <<>>]_vars

C1_Witness ==
    /\ Notified(last)
    /\ Len(subs[last.obs]) >= 2
    /\ Len(FnsCalled(last.trace, last.obs)) >= 3
    /\ value[last.obs] = last.arg

-----------------------------------------------------------------------------
\* C2 as stated: whatever value the Observable holds, set(a); set(b) with a # b
\* invokes each subscriber exactly twice and set(a); set(a) exactly once.
C2_TwoSetsWhateverInitial ==
    [][(IsSet(last) /\ IsSet(last') /\ last.notify /\ last'.notify /\ last.obs = last'.obs
            /\ last.arg # NaN /\ last'.arg # NaN) =>
          \A i \in 1..Len(subs'[last.obs]) :
              TimesCalled(last.trace, last.obs, subs'[last.obs][i])
                + TimesCalled(last'.trace, last.obs, subs'[last.obs][i])
              = IF last.arg # last'.arg THEN 2 ELSE 1]_vars

\* C2 amended: each of the two sets invokes a subscriber once exactly when its
\* argument is !== the value held at that moment.  So when the Observable does
\* not already hold a (and a === a), set(a); set(b) invokes each subscriber
\* twice and set(a); set(a) once; when it holds a already, once and not at all.
C2_TwoSets ==
    [][(IsSet(last) /\ IsSet(last') /\ last.notify /\ last'.notify /\ last.obs = last'.obs) =>
          \A i \in 1..Len(subs'[last.obs]) :
              TimesCalled(last.trace, last.obs, subs'[last.obs][i])
                + TimesCalled(last'.trace, last.obs, subs'[last.obs][i])
              = (IF last.changed THEN 1 ELSE 0)
                + (IF NotSame(last'.arg, last.arg) THEN 1 ELSE 0)]_vars

\* set(b) has just returned, directly after a set(a) that changed the value, b # a
C2_Witness ==
    /\ Notified(last)
    /\ last.chained
    /\ last.arg # NaN
    /\ Len(subs[last.obs]) >= 2
    /\ \A i \in 1..Len(subs[last.obs]) : TimesCalled(last.trace, last.obs, subs[last.obs][i]) = 1

-----------------------------------------------------------------------------
\* C3 as stated: after every upstream set, also one with notify = false, the
\* Computed's value is its derivation on the current upstream values.
C3_NeverDriftsAfterAnySet ==
    IsSet(last) => value[C] = Plus(value[A], value[B])

\* C3 amended: after every upstream set that notifies (the value differs and
\* notify is true) the Computed's value is its derivation on the current
\* upstream values; a set with notify = false leaves it as it was.
C3_NeverDriftsAfterNotification ==
    /\ Notified(last) => value[C] = Plus(value[A], value[B])
    /\ (IsSet(last) /\ ~last.notify) => TimesCalled(last.trace, last.obs, ComputedListenerFn(C)) = 0

\* an upstream notification has repaired a Computed that a silent set left stale
C3_Witness ==
    /\ Notified(last)
    /\ last.obs = B
    /\ value[A] = 1
    /\ value[C] = Plus(1, value[B])
    /\ TimesCalled(last.trace, B, ComputedListenerFn(C)) = 1
    /\ Len(subs[C]) = 1

-----------------------------------------------------------------------------
\* C4: c.set(x), c.value = x and c.update(x) on a Computed throw, leave its
\* value and every subscriber collection as they were, and invoke no listener.
C4_ComputedIsReadOnly ==
    [][(last'.obs = C /\ last'.op \in {"set", "value=", "update"}) =>
          /\ last'.thrown # ""
          /\ value' = value
          /\ subs' = subs
          /\ last'.trace = <<>>]_vars

C4_Witness ==
    /\ last.obs = C
    /\ last.op = "update"
    /\ last.thrown # ""
    /\ subs[C] # <<>>
    /\ last.arg # value[C]

-----------------------------------------------------------------------------
\* whether listener fn was created by the latest bind pass, or by no bind pass
Fresh(fn) ==
    CASE fn.kind = "attr" -> createdIn.fn[fn.id] = binds
      [] fn.kind = "computed" -> createdIn.obs[fn.obs] \in {0, binds}
      [] OTHER -> TRUE

\* C5: after any sequence of render and bind calls, no listener that an earlier
\* bind pass created (a binding's update callback, the listener of a Computed
\* the engine synthesized) is registered on any Observable, and a set invokes
\* none.
C5_NoStaleSubscription ==
    /\ \A o \in 1..Len(subs) : \A i \in 1..Len(subs[o]) : Fresh(subs[o][i])
    /\ last.op = "set" => \A i \in 1..Len(last.trace) : Fresh(last.trace[i].fn)

-----------------------------------------------------------------------------
\* C6: on unchanged markup, a further bind() leaves the number of retained
\* unsubscribe functions and the number of subscribers of each Observable of
\* the component as the bind pass before it left them.
C6_BindIdempotent ==
    [][(last'.op = "bind" /\ binds >= 1) =>
          /\ Len(subscriptions') = Len(subscriptions)
          /\ \A f \in DOMAIN fields : Len(subs'[fields[f]]) = Len(subs[fields[f]])]_vars

-----------------------------------------------------------------------------
\* C7: a subscriber subscribed later is placed after those subscribed before,
\* and a notification pass during which the collection is not changed invokes
\* the subscribers in that order, each exactly once.
C7_InsertionOrder ==
    [][/\ (last'.op = "subscribe" /\ ~Has(subs[last'.obs], last'.fn)) =>
            subs'[last'.obs] = Append(subs[last'.obs], last'.fn)
       /\ (Notified(last') /\ subs'[last'.obs] = subs[last'.obs]) =>
            FnsCalled(last'.trace, last'.obs) = subs[last'.obs]]_vars

C7_Witness ==
    /\ Notified(last)
    /\ last.obs = A
    /\ FnsCalled(last.trace, A) = <<ComputedListenerFn(C), LogFn(2), LogFn(1)>>
    /\ subs[A] = <<ComputedListenerFn(C), LogFn(2), LogFn(1)>>

-----------------------------------------------------------------------------
\* C8: subscribe(fn) leaves the collection unchanged when fn is registered
\* already and appends fn otherwise; the unsubscribe closure removes fn and
\* nothing else; a listener that is not registered is never invoked.
C8_SubscribeOnceUnsubscribeExactly ==
    [][/\ last'.op = "subscribe" =>
            subs' = [subs EXCEPT ![last'.obs] =
                        IF Has(@, last'.fn) THEN @ ELSE Append(@, last'.fn)]
       /\ last'.op = "unsubscribe" =>
            /\ subs' = [subs EXCEPT ![last'.obs] = Without(@, last'.fn)]
            /\ ~Has(subs'[last'.obs], last'.fn)
       /\ \A i \in 1..Len(last'.trace) :
            Has(subs[last'.trace[i].obs], last'.trace[i].fn)]_vars

\* a notification after LogFn(1) was unsubscribed did not invoke it
C8_Witness ==
    /\ Notified(last)
    /\ last.obs = A
    /\ FnsCalled(last.trace, A) = <<ComputedListenerFn(C), LogFn(2)>>

-----------------------------------------------------------------------------
\* C9: when a subscriber unsubscribes itself while it is invoked, the pass
\* still invokes every subscriber registered at its start exactly once, in
\* the original order, and only the unsubscribing one is removed.
C9_SelfUnsubscribeDuringPass ==
    [][(Notified(last') /\ last'.obs = A /\ Has(subs[A], SelfUnsubFn(A))) =>
          /\ FnsCalled(last'.trace, A) = subs[A]
          /\ subs'[A] = Without(subs[A], SelfUnsubFn(A))]_vars

\* the self-unsubscribing listener ran between two others
C9_Witness ==
    /\ Notified(last)
    /\ FnsCalled(last.trace, A) = <<ComputedListenerFn(C), LogFn(1), SelfUnsubFn(A), LogFn(2)>>
    /\ subs[A] = <<ComputedListenerFn(C), LogFn(1), LogFn(2)>>

-----------------------------------------------------------------------------
\* input node n of the tree carries a model directive for observable o
ModelBound(n, o) ==
    /\ nodes[n].attached
    /\ nodes[n].tag = "input"
    /\ \E i \in 1..Len(nodes[n].attrs) :
          /\ nodes[n].attrs[i].family = "model"
          /\ ComponentField(World, VariableName(nodes[n].attrs[i].expr)) = o
    /\ InstanceOfObservable(World, o)

\* C10: for a text input bound to an Observable by a model directive, an input
\* event (keyup or change) with node value v sets the Observable to v, and a
\* set of the Observable to w that notifies sets the node's value to w (a set
\* to the value it holds leaves the node as it is); either way every listener
\* is invoked at most once, so the write-back does not loop.
C10_ModelRoundTrip ==
    [][\A n \in 1..Len(nodes) : \A o \in 1..Len(value) :
          ModelBound(n, o) =>
             /\ (last'.op \in {"keyup", "change"} /\ last'.obs = n) =>
                    /\ value'[o] = last'.arg
                    /\ nodes'[n].props["value"] = last'.arg
             /\ (last'.op = "set" /\ last'.obs = o) =>
                    /\ value'[o] = last'.arg
                    /\ (last'.notify /\ last'.changed) => nodes'[n].props["value"] = last'.arg
                    /\ ~last'.changed => nodes'[n] = nodes[n]
             /\ last'.op \in {"keyup", "change", "set"} =>
                    /\ \A i, j \in 1..Len(last'.trace) :
                          last'.trace[i].fn = last'.trace[j].fn => i = j
                    /\ nodes'[n].on = nodes[n].on]_vars

\* an input event has written its value to the Observable, whose notification
\* has written it to the node once
C10_Witness ==
    /\ last.op = "change"
    /\ ModelBound(last.obs, 1)
    /\ last.arg = 1
    /\ value[1] = 1
    /\ nodes[last.obs].props["value"] = 1
    /\ Len(last.trace) = 1
    /\ last.trace[1].fn.kind = "attr"
    /\ last.trace[1].fn.elem = last.obs

-----------------------------------------------------------------------------
\* elem[name], undefined when the node has no such property
Prop(node, name) == IF name \in DOMAIN node.props THEN node.props[name] ELSE Undefined

\* node n of the tree ns carries a value-bind of its text to the field that holds o
TextBound(ns, n, o) ==
    /\ ns[n].attached
    /\ \E i \in 1..Len(ns[n].attrs) :
          /\ ns[n].attrs[i].family = "value"
          /\ ns[n].attrs[i].name = "text"
          /\ ComponentField(World, VariableName(ns[n].attrs[i].expr)) = o

\* C11: for a node whose markup binds its text to the field count, every
\* render leaves the node's text equal to count's value (0 after the initial
\* render), and count.value = v with v !== the value held leaves the text of
\* that same node equal to v, no render having happened in between.
C11_ValueBindEndToEnd ==
    [][\A o \in 1..Len(value) :
          /\ last'.op = "render" =>
                \A n \in 1..Len(nodes') :
                    TextBound(nodes', n, o) => Prop(nodes'[n], "innerText") = value'[o]
          /\ (last'.op = "set" /\ last'.obs = o /\ last'.notify /\ last'.changed
                /\ binds' = binds) =>
                \A n \in 1..Len(nodes) :
                    TextBound(nodes, n, o) =>
                        /\ nodes'[n].attached
                        /\ Prop(nodes'[n], "innerText") = last'.arg]_vars

\* count, 0 when rendered, was set to 1 and the bound node shows 1
C11_Witness ==
    /\ last.op = "set"
    /\ last.changed
    /\ last.arg = 1
    /\ binds = 1
    /\ \E n \in 1..Len(nodes) :
          /\ TextBound(nodes, n, last.obs)
          /\ Prop(nodes[n], "innerText") = 1

-----------------------------------------------------------------------------
\* node n of the tree ns carries a show-if directive for the field that holds o
ShowBound(ns, n, o) ==
    /\ ns[n].attached
    /\ \E i \in 1..Len(ns[n].attrs) :
          /\ ns[n].attrs[i].family = "show"
          /\ ComponentField(World, VariableName(ns[n].attrs[i].expr)) = o

\* C12 as stated: after every set of flag, also one with notify = false, the
\* node bound to flag by a show-if directive is hidden when flag's value is
\* falsy and shown when it is truthy.
C12_VisibleAfterAnySet ==
    last.op = "set" =>
        \A o \in 1..Len(value) : \A n \in 1..Len(nodes) :
            ShowBound(nodes, n, o) => (nodes[n].display = "none") = ~Truthy(value[o])

\* C12 amended: after every render, and after every set of flag that notifies
\* (the value differs and notify is true), the node bound to flag is hidden
\* when flag's value is falsy and shown when it is truthy; a set of flag
\* changes nothing but the visibility of the nodes bound to flag: every other
\* property and handler of every node, the retained unsubscribe functions and
\* the subscribers of every Observable stay as they were.
C12_VisibleAfterNotification ==
    [][\A o \in 1..Len(value) :
          (\E n \in 1..Len(nodes') : ShowBound(nodes', n, o)) =>
             /\ (last'.op = "render"
                    \/ (last'.op = "set" /\ last'.obs = o /\ last'.notify /\ last'.changed)) =>
                   \A n \in 1..Len(nodes') :
                       ShowBound(nodes', n, o) =>
                           (nodes'[n].display = "none") = ~Truthy(value'[o])
             /\ (last'.op = "set" /\ last'.obs = o /\ binds' = binds) =>
                   /\ \A n \in 1..Len(nodes) :
                          nodes'[n] = [nodes[n] EXCEPT !.display =
                                          IF ShowBound(nodes, n, o) THEN nodes'[n].display ELSE @]
                   /\ subscriptions' = subscriptions
                   /\ subs' = subs
                   /\ \A p \in 1..Len(value) : p # o => value'[p] = value[p]]_vars

\* flag.value = true has shown the node that the render had hidden, next to a
\* node bound to count
C12_Witness ==
    /\ last.op = "set"
    /\ last.changed
    /\ Truthy(last.arg)
    /\ \E n, m \in 1..Len(nodes) :
          /\ ShowBound(nodes, n, last.obs)
          /\ nodes[n].display = ""
          /\ \E o \in 1..Len(value) : o # last.obs /\ TextBound(nodes, m, o)

-----------------------------------------------------------------------------
\* C13: once the component is in the UI tree, whether the host inserted it or
\* render(container) did, onFirstRender has been called exactly once.
C13_FirstRenderHookOnce ==
    lifecycle.connected => lifecycle.onFirstRender = 1

-----------------------------------------------------------------------------
\* the steps of the k-th render of an outermost call
StepsOfRender(steps, k) == SubSeq(steps, 4 * k - 3, 4 * k)

\* C14: every render, called directly or from a notification, produces and
\* caches the markup, replaces the content, runs bind() once and then
\* onRender() once, in this order; bind() scans the markup that render
\* produced; the component never has more than one binding engine, and has one
\* after its first render.
C14_RenderOrder ==
    [][/\ last'.op # "bind" => Len(last'.steps) % 4 = 0
       /\ \A k \in 1..(IF last'.op = "bind" THEN 0 ELSE Len(last'.steps) \div 4) :
             LET r == StepsOfRender(last'.steps, k)
             IN  /\ <<r[1].step, r[2].step, r[3].step, r[4].step>>
                       = <<"template", "innerHTML", "bind", "onRender">>
                 /\ r[2].markup = r[1].markup
                 /\ r[3].markup = r[1].markup
       /\ last'.op = "render" =>
             /\ Len(last'.steps) = 4
             /\ templateCache' = last'.steps[1].markup
             /\ binds' = binds + 1
             /\ lifecycle'.engines = 1
             /\ bindings']_vars

\* a second render has reused the binding engine of the first
C14_Witness ==
    /\ last.op = "render"
    /\ binds = 2
    /\ lifecycle.engines = 1
    /\ Len(last.steps) = 4
    /\ last.steps[3].markup # <<>>

-----------------------------------------------------------------------------
\* the closures () => this.render() among the subscribers s
RenderFnsOf(s) == SelectSeq(s, LAMBDA fn : fn.kind = "render")

\* how many elements of list are x
Occurrences(list, x) == Cardinality({i \in 1..Len(list) : list[i] = x})

\* C15: registerRenderDependencies(list) throws nothing, subscribes one
\* re-render closure to an Observable for each of its occurrences in the list,
\* before or after an element that is no Observable, and reports exactly the
\* elements that are none; afterwards every notification of a registered
\* Observable runs one full render for each closure registered on it.
C15_RegisterRenderDependencies ==
    [][/\ last'.op = "registerRenderDependencies" =>
             /\ last'.thrown = ""
             /\ \A o \in 1..Len(subs) :
                    /\ Len(subs'[o]) = Len(subs[o]) + Occurrences(last'.list, o)
                    /\ SubSeq(subs'[o], 1, Len(subs[o])) = subs[o]
                    /\ Len(RenderFnsOf(subs'[o]))
                          = Len(RenderFnsOf(subs[o])) + Occurrences(last'.list, o)
             /\ last'.errors = SelectSeq(last'.list, LAMBDA x : x = 0)
       /\ \A o \in 1..Len(subs) :
             (last'.op = "set" /\ last'.obs = o /\ last'.notify /\ last'.changed) =>
                 /\ binds' = binds + Len(RenderFnsOf(subs[o]))
                 /\ Len(last'.steps) = 4 * Len(RenderFnsOf(subs[o]))
                 /\ \A i \in 1..Len(subs[o]) :
                        subs[o][i].kind = "render" =>
                            /\ TimesCalled(last'.trace, o, subs[o][i]) = 1
                            /\ Has(subs'[o], subs[o][i])]_vars

\* a set of an Observable that was registered twice has rendered the component
\* twice
C15_Rerendered ==
    /\ last.op = "set"
    /\ last.changed
    /\ Len(RenderFnsOf(subs[last.obs])) = 2
    /\ Len(last.steps) = 8
    /\ binds >= 3

\* registerRenderDependencies([count, 'x', count]) has registered count twice
C15_Witness ==
    /\ last.op = "registerRenderDependencies"
    /\ Len(last.list) = 3
    /\ last.list[2] = 0
    /\ last.errors = <<0>>
    /\ Len(RenderFnsOf(subs[last.list[1]])) >= 1
    /\ Len(RenderFnsOf(subs[last.list[3]])) >= 1

-----------------------------------------------------------------------------
\* directive d resolves to nothing: its expression evaluates to undefined, or
\* the listener function or the field it names does not exist
Misses(d) ==
    CASE d.family \in {"value", "show"} ->
            /\ ComponentField(World, VariableName(d.expr)) = 0
            /\ GetDependentObservablesFromJsExpression(World, d.expr) = <<>>
            /\ EvalExpr(World, d.expr) = Undefined
      [] d.family = "listener" ->
            /\ VariableName(d.expr) \notin {<<m>> : m \in Methods}
            /\ CallTarget(d.expr) = ""
      [] OTHER -> ComponentField(World, VariableName(d.expr)) = 0

\* the node is as innerHTML created it: no property written, shown, no handler
AsCreated(node) ==
    /\ node.props = (IF node.tag = "input" THEN ("value" :> EmptyString) ELSE <<>>)
    /\ node.display = ""
    /\ \A t \in EventTypes : node.on[t] = NoFn

\* what a skipped binding leaves of node n in a bind pass: a bind() on the
\* nodes of the last render leaves the node as it was, a render leaves the new
\* node as innerHTML created it
LeftAlone(n) ==
    IF last'.op = "bind" THEN nodes'[n] = nodes[n] ELSE AsCreated(nodes'[n])

\* C16: a bind pass leaves every node whose directives all resolve to nothing
\* as it was (attribute, visibility and handler untouched), and binds every
\* other directive of the markup.
C16_ResolutionMissSkipped ==
    [][last'.op \in {"render", "bind"} =>
          \A n \in 1..Len(nodes') :
              /\ (/\ nodes'[n].attached
                  /\ \A i \in 1..Len(nodes'[n].attrs) : Misses(nodes'[n].attrs[i]))
                   => LeftAlone(n)
              /\ \A o \in 1..Len(value) :
                    TextBound(nodes', n, o) /\ InstanceOfObservable(World, o)
                       => Prop(nodes'[n], "innerText") = value'[o]]_vars

-----------------------------------------------------------------------------
\* node n of the tree ns carries a model directive for the field that holds o
ModelDirective(ns, n, o) ==
    /\ ns[n].attached
    /\ \E i \in 1..Len(ns[n].attrs) :
          /\ ns[n].attrs[i].family = "model"
          /\ ns[n].attrs[i].name = "value"
          /\ ComponentField(World, VariableName(ns[n].attrs[i].expr)) = o

\* the unsubscribe functions among retained that belong to bindings of node n
RetainedFor(retained, n) ==
    SelectSeq(retained, LAMBDA u : u # UndefinedUnsubscribe /\ u.fn.elem = n)

\* C20: a bind pass leaves a node with a model directive for a field that
\* exists and holds no Observable as it was (nothing written, no input
\* handler) and retains no unsubscribe function for it, while the directives
\* after it are bound; an input with a model directive for an Observable
\* shows its value, has the write-back handlers for keyup and change, and its
\* update closure is subscribed and retained.
C20_ModelBindRequiresObservable ==
    [][last'.op \in {"render", "bind"} =>
          \A n \in 1..Len(nodes') : \A o \in 1..Len(value) :
              /\ (ModelDirective(nodes', n, o) /\ ~InstanceOfObservable(World, o)) =>
                    /\ LeftAlone(n)
                    /\ RetainedFor(subscriptions', n) = <<>>
                    /\ \A m \in 1..Len(nodes') : \A p \in 1..Len(value) :
                          (m > n /\ TextBound(nodes', m, p) /\ InstanceOfObservable(World, p))
                             => Prop(nodes'[m], "innerText") = value'[p]
              /\ (ModelDirective(nodes', n, o) /\ InstanceOfObservable(World, o)
                     /\ nodes'[n].tag = "input") =>
                    /\ Prop(nodes'[n], "value") = value'[o]
                    /\ \A t \in {"keyup", "change"} :
                          /\ nodes'[n].on[t].kind = "writeBack"
                          /\ nodes'[n].on[t].obs = o
                          /\ nodes'[n].on[t].elem = n
                    /\ Len(RetainedFor(subscriptions', n)) = 1
                    /\ RetainedFor(subscriptions', n)[1].obs = o
                    /\ Has(subs'[o], RetainedFor(subscriptions', n)[1].fn)]_vars

\* a bind pass has left the input modelled on the field title, which holds a
\* string, as it was and has bound the node after it
C20_Witness ==
    /\ last.op = "render"
    /\ \E n \in 1..Len(nodes) : \E o \in 1..Len(value) :
          /\ ModelDirective(nodes, n, o)
          /\ ~InstanceOfObservable(World, o)
          /\ AsCreated(nodes[n])
          /\ Has(subscriptions, UndefinedUnsubscribe)
          /\ \E m \in 1..Len(nodes) : m > n /\ Prop(nodes[m], "innerText") = value[1]

-----------------------------------------------------------------------------
\* o is a KWM_Computed
IsComputed(o) == valueFn[o] # <<>> /\ valueFn[o] # NoObservable

\* how many entries of s are fn
Entries(s, fn) == Len(SelectSeq(s, LAMBDA e : e = fn))

\* C18: the listener of a Computed is registered once on each of its upstream
\* Observables, however often the Observable occurs in the dependency list;
\* a notification of the upstream Observable calls it exactly once, after
\* which the Computed holds its derivation on the current values and each of
\* its subscribers has been called exactly once, with that value, also when
\* the value is the one the Computed held before.
C18_ComputedRecomputesAndNotifies ==
    [][\A c \in 1..Len(value') : \A o \in 1..Len(value) :
          IsComputed(c)' =>
             /\ Entries(subs'[o], ComputedListenerFn(c)) <= 1
             /\ (c <= Len(value) /\ Has(subs[o], ComputedListenerFn(c))
                   /\ last'.op = "set" /\ last'.obs = o /\ last'.notify /\ last'.changed) =>
                   /\ TimesCalled(last'.trace, o, ComputedListenerFn(c)) = 1
                   /\ value'[c] = EvalExpr([fields |-> fields, value |-> value'], valueFn[c])
                   /\ \A i \in 1..Len(subs[c]) :
                          /\ TimesCalled(last'.trace, c, subs[c][i]) = 1
                          /\ \A j \in 1..Len(last'.trace) :
                                last'.trace[j].obs = c => last'.trace[j].arg = value'[c]]_vars

\* a Computed over count and count again was recomputed once by a set of
\* count and notified its subscriber
C18_Witness ==
    /\ last.op = "set"
    /\ last.changed
    /\ \E c \in 1..Len(value) :
          /\ IsComputed(c)
          /\ Len(GetDependentObservablesFromJsExpression(World, valueFn[c])) = 2
          /\ Len(subs[c]) = 1
          /\ value[c] = 2
          /\ TimesCalled(last.trace, last.obs, ComputedListenerFn(c)) = 1
          /\ TimesCalled(last.trace, c, subs[c][1]) = 1

-----------------------------------------------------------------------------
\* how many listeners are registered, on all Observables together
RECURSIVE Subscribers(_, _)
Subscribers(ss, o) == IF o > Len(ss) THEN 0 ELSE Len(ss[o]) + Subscribers(ss, o + 1)

\* C17: every action of TodoComponent (a click on the add button, on a
\* checkbox or on a remove button, a keyup or change of the input) returns
\* after at most one render and after no more listener calls than there are
\* listeners registered before it plus listeners it registers; no listener is
\* called twice by one notification, although the render re-subscribes the
\* bindings while the notification that called it is still running.
C17_ActionsTerminate ==
    [][last'.op \in {"click", "keyup", "change"} =>
          /\ binds' <= binds + 1
          /\ Len(last'.steps) = 4 * (binds' - binds)
          /\ Len(last'.trace) <= Subscribers(subs, 1) + (made' - made)
          /\ \A i, j \in 1..Len(last'.trace) :
                 (last'.trace[i].obs = last'.trace[j].obs /\ last'.trace[i].fn = last'.trace[j].fn)
                     => i = j
          /\ (last'.op = "click" /\ last'.fn.attr \in {"removeTodo", "toggleTodo"}) =>
                 binds' = binds + 1]_vars

\* addTodo has added a todo: the notification of todos has recomputed the open
\* todos and rendered once, and the emptied input was written by the update
\* closure that this render subscribed
C17_Witness ==
    /\ last.op = "click"
    /\ last.fn.attr = "addTodo"
    /\ Len(value[fields["todos"]].items) = 2
    /\ Len(last.steps) = 4
    /\ Len(last.trace) = 3
    /\ last.trace[2].fn.kind = "render"
    /\ last.trace[3].fn.kind = "attr"
    /\ createdIn.fn[last.trace[3].fn.id] = binds

-----------------------------------------------------------------------------
\* the listener directives of a node for event type t, in the order of the markup
ListenerDirectives(node, t) ==
    SelectSeq(node.attrs, LAMBDA d : d.family = "listener" /\ d.name = t)

\* C19: after a bind pass a node with listener directives for event type t
\* has the handler of the first of them, and a bind pass on a node that has a
\* handler for t already leaves that handler in place.
C19_ListenerBindIdempotent ==
    [][last'.op \in {"render", "bind"} =>
          \A n \in 1..Len(nodes') : \A t \in EventTypes :
              (nodes'[n].attached /\ ListenerDirectives(nodes'[n], t) # <<>>) =>
                  /\ nodes'[n].on[t].attr = CallTarget(ListenerDirectives(nodes'[n], t)[1].expr)
                  /\ (last'.op = "bind" /\ nodes[n].on[t] # NoFn) =>
                        nodes'[n].on[t] = nodes[n].on[t]]_vars


-----------------------------------------------------------------------------
\* the Observable fields an expression references as this.f, in the order of
\* their occurrence and with repetitions
RECURSIVE ReferencedFrom(_, _)
ReferencedFrom(expr, i) ==
    IF i + 2 > Len(expr) THEN <<>>
    ELSE (IF /\ expr[i] = "this" /\ expr[i + 1] = "."
             /\ expr[i + 2] \in DOMAIN fields
             /\ valueFn[fields[expr[i + 2]]] # NoObservable
          THEN <<fields[expr[i + 2]]>> ELSE <<>>) \o ReferencedFrom(expr, i + 1)
Referenced(expr) == ReferencedFrom(expr, 1)

\* the node's directive has been applied again by the call: the trace holds a
\* call of an update closure of the node
Reapplied(tr, n) ==
    \E i \in 1..Len(tr) : tr[i].fn.kind \in {"attr", "showIf"} /\ tr[i].fn.elem = n

\* C21: the dependency list returned for an expression is the sequence of the
\* component's Observable fields referenced as this.f in it, in order and with
\* repetitions, whatever separates the references; and a value-bind or show-if
\* node whose expression references an Observable field is written again by
\* every set of that field that changes it and notifies.
C21_DependencyDiscovery ==
    [][/\ last'.op = "discover" =>
              last'.list = Referenced(template[last'.obs].dirs[1].expr)
       /\ (last'.op = "set" /\ last'.changed /\ last'.notify) =>
              \A n \in 1..Len(nodes) :
                  (/\ nodes[n].attached
                   /\ \E k \in 1..Len(Referenced(nodes[n].attrs[1].expr)) :
                          Referenced(nodes[n].attrs[1].expr)[k] = last'.obs)
                      => Reapplied(last'.trace, n)]_vars


-----------------------------------------------------------------------------
\* the update closures of node n that are subscribed to an Observable
UpdateSubscriptions(n) ==
    UNION {{<<o, i>> : i \in {j \in 1..Len(subs[o]) :
                                 /\ subs[o][j].kind \in {"attr", "showIf"}
                                 /\ subs[o][j].elem = n}} : o \in 1..Len(subs)}

\* the value-bind and show-if directives of a node whose expression names an
\* Observable
ReactiveDirectives(node) ==
    SelectSeq(node.attrs, LAMBDA d : d.family \in {"value", "show"} /\ Referenced(d.expr) # <<>>)

\* C22: after a bind pass every node of the tree has, for each of its
\* value-bind and show-if directives on an Observable, exactly one update
\* closure subscribed and exactly one unsubscribe function retained, also when
\* several nodes carry the same directive text.
C22_OneBindingPerDirective ==
    bindings =>
        \A n \in 1..Len(nodes) :
            nodes[n].attached =>
                /\ Cardinality(UpdateSubscriptions(n)) = Len(ReactiveDirectives(nodes[n]))
                /\ Len(RetainedFor(subscriptions, n)) = Len(ReactiveDirectives(nodes[n]))


-----------------------------------------------------------------------------
\* the todos of the model that are not completed, in list order
Open(todos) == SelectSeq(todos, LAMBDA todo : ~todo.completed)

\* the nodes of the tree, in document order, as the markup that created them
Shown ==
    LET attached == SelectSeq(nodes, LAMBDA node : node.attached)
    IN  [i \in 1..Len(attached) |->
            Element(attached[i].tag, attached[i].type, attached[i].attrs)]

\* C23: whatever addTodo, removeTodo and toggleTodo calls the model has
\* received, openTodos holds the model's todos that are not completed, in list
\* order; once the component has been rendered, its markup and its tree are
\* the input, the add button and one item for each of those todos; and in
\* every notification of todos the listener of openTodos is called before the
\* re-render closure.
C23_OpenTodosConsistent ==
    [][LET open == Open(value'[fields["todos"]].items)
       IN  /\ value'[fields["openTodos"]].items = open
           /\ bindings' =>
                 /\ templateCache' = template \o TodoItems(open)
                 /\ Shown' = templateCache'
           /\ last'.op \in {"addTodo", "removeTodo", "toggleTodo"} =>
                 /\ binds' = binds + 1
                 /\ \A i, j \in 1..Len(last'.trace) :
                        (last'.trace[i].fn.kind = "computed" /\ last'.trace[j].fn.kind = "render")
                            => i < j]_vars

\* a todo was completed after the first render: the model holds two todos and
\* the tree shows the one that is open
C23_Witness ==
    /\ last.op = "toggleTodo"
    /\ Len(value[fields["todos"]].items) = 2
    /\ Len(Open(value[fields["todos"]].items)) = 1
    /\ Len(Shown) = Len(template) + 3
    /\ Len(last.trace) = 2


-----------------------------------------------------------------------------
\* a listener that sets the Observable was called before the i-th call of tr
AfterSetter(tr, i) == \E j \in 1..(i - 1) : tr[j].fn.kind = "setter"

\* C24: in a notification pass of a, every listener of a is called with the
\* value a holds at the moment of the call: the value that was set, until a
\* listener has set a to another value, and from then on that value, in the
\* inner pass and in the rest of the outer pass alike.
C24_ArgumentIsCurrentValue ==
    [][(Notified(last') /\ last'.obs = A) =>
          /\ \A i \in 1..Len(last'.trace) :
                last'.trace[i].obs = A =>
                    last'.trace[i].arg = IF AfterSetter(last'.trace, i)
                                         THEN value'[A] ELSE last'.arg
          /\ \A i \in 1..Len(subs[A]) :
                subs[A][i].kind = "setter" => value'[A] = subs[A][i].id]_vars

\* a.set(1) with listeners log 1, () => a.set(0), log 2: log 2 was called
\* twice, by the inner and by the outer pass, with 0 both times
C24_Witness ==
    /\ Notified(last)
    /\ last.obs = A
    /\ last.arg = 1
    /\ value[A] = 0
    /\ \E i, j, k \in 1..Len(last.trace) :
          /\ i < j /\ j < k
          /\ last.trace[i] = [obs |-> A, fn |-> LogFn(1), arg |-> 1]
          /\ last.trace[j].fn = SetterFn(A, 0)
          /\ last.trace[k] = [obs |-> A, fn |-> LogFn(2), arg |-> 0]
          /\ last.trace[Len(last.trace)] = [obs |-> A, fn |-> LogFn(2), arg |-> 0]
          /\ k < Len(last.trace)


-----------------------------------------------------------------------------
\* how many todos of the list differ from the todo at their place in before
Changed(before, after) ==
    Cardinality({i \in 1..Len(before) : i > Len(after) \/ after[i] # before[i]})

\* C25: the ids of the todos of the model are pairwise distinct, whatever
\* addTodo calls were made at whatever clock readings that do not decrease;
\* removeTodo(id) removes at most one todo, and toggleTodo(id) changes at most
\* one todo and leaves the length of the list as it is.
C25_TodoIdsDistinct ==
    [][LET before == value[fields["todos"]].items
           after == value'[fields["todos"]].items
       IN  /\ \A i, j \in 1..Len(after) : after[i].id = after[j].id => i = j
           /\ last'.op = "removeTodo" => Len(after) >= Len(before) - 1
           /\ last'.op = "toggleTodo" =>
                 /\ Len(after) = Len(before)
                 /\ Changed(before, after) <= 1]_vars

====
